---- MODULE Spec2Model ----
(***************************************************************************)
(* Model of the bulk upload pipeline of the Atlas client                   *)
(* (src/nomic/project.py: AtlasProject.add_text / add_embeddings).        *)
(*                                                                         *)
(* One call of add_text or add_embeddings: the shard plan                  *)
(* range(0, len(data), shard_size), the ThreadPoolExecutor that runs       *)
(* send_request for every shard, and the coordinating loop that classifies *)
(* each response, tallies it, resubmits 504s and aborts on fatal answers.  *)
(*                                                                         *)
(* The loop of add_embeddings (lines 1253-1306) is the text of add_text's  *)
(* loop (lines 1102-1155); the two methods differ in the code after the    *)
(* with block (Epilogue), so `method` selects between them.                *)
(*                                                                         *)
(* Further specifications share the variables: the planner (SpecPlan), the *)
(* chunk loop of update_maps / map_embeddings (SpecMaps), the metadata     *)
(* validator (SpecValidate, SpecValidateLong), the pairing of records and  *)
(* embedding rows (SpecPair), the AtlasProject constructor (SpecCtor), the *)
(* documented failure bodies (SpecClassify), the loop late in a long call  *)
(* (SpecRetry), the call with its validator (SpecCall) and the query loop  *)
(* of AtlasProjection.get_nearest_neighbors (SpecQuery).                   *)
(***************************************************************************)
EXTENDS Integers, Sequences, FiniteSets, TLC

\* ---------------------------------------------------------------- bounds
\* Largest dataset, requested shard size and pool size of the upload runs.
MaxN == 3
MaxS == 2
MaxW == 2
\* Largest number of shards of the upload runs.
MaxShards == 2
\* Largest small dataset and requested shard size of the planner runs.
MaxPlanN == 12
MaxPlanS == 6
MaxChunks == 3
\* Largest number of records of the validator runs.
MaxBatch == 2
\* Largest number of records of the validator runs over a few record shapes.
MaxLongBatch == 3
\* Largest number of shards already answered when the retry runs start.
MaxAnswered == 15

\* ------------------------------------------------------ program constants
\* shard_size = min(shard_size, 5000)
MaxShardSize == 5000
HTTP_OK == 200
HTTP_TOO_LARGE == 413
HTTP_GATEWAY_TIMEOUT == 504
\* a status that is none of 200, 413, 504
HTTP_OTHER == 500
\* while status != 200 and retries < 10
MaxQueryAttempts == 10
\* if get_object_size_in_bytes(data_shard) > 8000000
MaxShardBytes == 8000000
MAX_MEMORY_CHUNK == 150000
\* the id field of a project created without a unique_id_field of its own
ATLAS_DEFAULT_ID_FIELD == "id_"
\* embeddings is None
NoEmbeddings == -1

VARIABLES
    method,       \* "add_text" or "add_embeddings"
    N,            \* len(data)
    S,            \* the shard_size argument
    num_workers,  \* the num_workers argument
    shard_size,   \* shard_size after min(shard_size, 5000); 0 before that
    shards,       \* the slices data[i : i + shard_size] of the submitted starts
    pc,           \* position of the calling thread
    fut,          \* every future submitted so far: start, state, response
    futures,      \* the dict `futures` (its keys; its values are fut[f].start)
    queue,        \* the executor's work queue (futures not yet picked up)
    done,         \* the part of `done` the for loop has still to visit
    failed, succeeded, errors_504,
    pbar_n,       \* number of pbar.update(1) calls
    outcome,      \* how the call ends: "none" while the loop runs
    project_modality, \* project['modality'] / self.modality of the project
    locked,       \* insert_update_delete_lock as the server reports it
    valid,        \* whether the validator accepts `data` (does not raise)
    has_index,    \* len(self.indices) > 0 when the call reads it
    shard_bytes,  \* per shard: get_object_size_in_bytes(data_shard)
    emb_rows,     \* embeddings.shape[0]; NoEmbeddings when embeddings is None
    upload_endpoint, \* the path the call's requests are posted to
    sentTo,       \* history: the paths requests have been posted to
    caller,       \* the method uploading in chunks: update_maps, map_embeddings
    maps_len,     \* its len(data)
    chunk_i,      \* position of its loop in range(0, len(data), MAX_MEMORY_CHUNK)
    chunk_results,\* what its add_text/add_embeddings calls returned or raised
    maps_pc,      \* its position: "idle", "upload", "raised", "done"
    triggers,     \* history: the index build requests it has posted
    id_field,     \* project.id_field as the validator reads it
    replace_empty,\* replace_empty_string_values_with_string_null
    data,         \* the validator's `data`: the records, changed in place
    data_in,      \* history: `data` as it was passed to the validator
    v_outcome,    \* how the validator ended: "none" before it ran
    ctor_args,    \* the constructor's arguments and the server's answers
    ctor_pc,      \* position of AtlasProject.__init__
    ctor_reqs,    \* history: the requests __init__ has issued, in order
    ctor_outcome, \* how __init__ ended: "none" while it runs
    queries_ndim, \* queries.ndim of a get_nearest_neighbors call
    status,       \* its `status`: the status code of the latest response
    retries,      \* its `retries`: the query requests sent so far
    nn_pc,        \* position of get_nearest_neighbors
    nn_statuses,  \* history: the status codes of its responses, in order
    nn_outcome,   \* how it ended: "none" while it runs
    hist,         \* history, per shard: the responses the loop has read
    adv,          \* history, per shard: pbar.update(1) calls
    succBy,       \* history, per shard: amount added to succeeded
    failBy        \* history, per shard: amount added to failed

vars == <<method, N, S, num_workers, shard_size, shards, pc, fut, futures,
          queue, done, failed, succeeded, errors_504, pbar_n, outcome,
          project_modality, locked, valid, has_index, shard_bytes,
          upload_endpoint, sentTo, caller, maps_len, chunk_i, chunk_results,
          maps_pc, triggers, emb_rows, id_field, replace_empty, data, data_in,
          v_outcome, ctor_args, ctor_pc, ctor_reqs, ctor_outcome, queries_ndim,
          status, retries, nn_pc, nn_statuses, nn_outcome, hist, adv, succBy,
          failBy>>

project == <<project_modality, locked, valid, has_index, shard_bytes,
             emb_rows>>

validator == <<id_field, replace_empty, data, data_in, v_outcome>>

ctor == <<ctor_args, ctor_pc, ctor_reqs, ctor_outcome>>

query == <<queries_ndim, status, retries, nn_pc, nn_statuses, nn_outcome>>

maps == <<caller, maps_len, chunk_i, chunk_results, maps_pc, triggers>>

params == <<method, N, S, num_workers, shard_size, shards, project,
            upload_endpoint, maps, validator, ctor, query>>

tallies == <<failed, succeeded, errors_504, pbar_n>>

ghosts == <<hist, adv, succBy, failBy>>

Min(a, b) == IF a < b THEN a ELSE b

\* ------------------------------------------------------------- responses
\* The parsed body of a response: shape "none" is a body that is not JSON
\* (response.json() raises JSONDecodeError), "str" a JSON string, "dict" a
\* JSON object {"detail": <message>}; phrase is the failure phrase the text
\* contains.
NoBody == [shape |-> "none", phrase |-> "none"]

DetailBody == [shape |-> "dict", phrase |-> "none"]

NoResp == [status |-> 0, body |-> NoBody]

Responses ==
    {[status |-> HTTP_OK, body |-> DetailBody]}
    \cup {[status |-> st, body |-> b] :
            st \in {HTTP_TOO_LARGE, HTTP_GATEWAY_TIMEOUT, HTTP_OTHER},
            b \in {NoBody, DetailBody}}
    \cup {[status |-> HTTP_OTHER, body |-> [shape |-> "str", phrase |-> p]] :
            p \in {"limit", "lock", "conflict"}}
    \cup {[status |-> HTTP_OTHER, body |-> [shape |-> "dict", phrase |-> "limit"]]}

\* response.json() returns instead of raising JSONDecodeError
JsonParses(r) == r.body.shape # "none"

\* `'<phrase>' in response.json()`: substring test on a JSON string, key
\* membership on a JSON object (whose only key is "detail").
PhraseIn(p, r) ==
    /\ r.body.shape = "str"
    /\ r.body.phrase = p

\* ------------------------------------------------------------ shard plan
\* range(0, n, s) as the sequence of its values
RECURSIVE RangeFrom(_, _, _)
RangeFrom(i, n, s) ==
    IF i >= n THEN <<>> ELSE <<i>> \o RangeFrom(i + s, n, s)

\* data[i : i + s] as the half-open index range it selects
Slice(i, s, n) == [lo |-> Min(i, n), hi |-> Min(i + s, n)]

\* the shard size without the cap
EffectiveShardSize_nocap(s) == s

\* shard_size = min(shard_size, 5000)
EffectiveShardSize(s) == Min(s, MaxShardSize)

\* the number of shards of the plan
PlanLen(n, s) == Len(RangeFrom(0, n, EffectiveShardSize(s)))

\* if get_object_size_in_bytes(data_shard) > 8000000: raise Exception
Oversized(b) == b > MaxShardBytes

\* the modality a method accepts
ModalityOf(m) == IF m = "add_text" THEN "text" ELSE "embedding"

\* an endpoint choice that ignores `progressive`
UploadEndpoint_initial(m, progressive) ==
    IF m = "add_text" THEN "/v1/project/data/add/json/initial"
                      ELSE "/v1/project/data/add/embedding/initial"

\* upload_endpoint = ".../initial"; if progressive: ".../progressive"
UploadEndpoint(m, progressive) ==
    IF m = "add_text"
    THEN (IF progressive THEN "/v1/project/data/add/json/progressive"
                         ELSE "/v1/project/data/add/json/initial")
    ELSE (IF progressive THEN "/v1/project/data/add/embedding/progressive"
                         ELSE "/v1/project/data/add/embedding/initial")

\* the checks without the one of the ingestion lock
PreCheck_nolock ==
    IF project_modality # ModalityOf(method) THEN "modality_error"
    ELSE IF ~valid THEN "validation_error"
    ELSE "none"

\* the checks before the upload, in the order of the code: the error raised
\* by the first that fails, "none" when all pass
PreCheck ==
    IF project_modality # ModalityOf(method) THEN "modality_error"
    ELSE IF locked THEN "locked_error"
    ELSE IF ~valid THEN "validation_error"
    ELSE "none"

\* ---------------------------------------------------------------- executor
Ids == 1..Len(fut)

\* futures whose send_request is executing: the requests in flight
Running == {f \in Ids : fut[f].st = "running"}

\* a shutdown that does not wait for the work items
ExecutorIdle_nowait == TRUE

\* shutdown(wait=True) returns: no work item queued or running
ExecutorIdle ==
    /\ queue = <<>>
    /\ Running = {}

\* executor.submit(send_request, i): a new future at the tail of the queue
Submit(fs, i, a) ==
    Append(fs, [start |-> i, st |-> "queued", resp |-> NoResp, attempt |-> a])

\* a pool that starts a thread for every work item
PoolHasIdleWorker_unbounded == TRUE

\* ThreadPoolExecutor(max_workers=num_workers): a thread is free to take work
PoolHasIdleWorker == Cardinality(Running) < num_workers

\* ----------------------------------------------------------------- initial
IdleCall ==
    /\ shard_size = 0
    /\ shards = <<>>
    /\ pc = "start"
    /\ fut = <<>>
    /\ futures = {}
    /\ queue = <<>>
    /\ done = {}
    /\ failed = 0
    /\ succeeded = 0
    /\ errors_504 = 0
    /\ pbar_n = 0
    /\ outcome = "none"
    /\ upload_endpoint = ""
    /\ sentTo = {}
    /\ hist = <<>>
    /\ adv = <<>>
    /\ succBy = <<>>
    /\ failBy = <<>>

\* no chunked upload is running
IdleMaps ==
    /\ caller = "none"
    /\ maps_len = 0
    /\ chunk_i = 1
    /\ chunk_results = <<>>
    /\ maps_pc = "idle"
    /\ triggers = {}

\* the validator has not run
NotRun == [kind |-> "none", first |-> {}, found |-> {}]

IdleValidator ==
    /\ id_field = ATLAS_DEFAULT_ID_FIELD
    /\ replace_empty = TRUE
    /\ data = <<>>
    /\ data_in = <<>>
    /\ v_outcome = NotRun

\* no constructor is running
IdleCtor ==
    /\ ctor_args = [by_id |-> TRUE]
    /\ ctor_pc = "idle"
    /\ ctor_reqs = <<>>
    /\ ctor_outcome = "none"

\* no nearest-neighbour query is running
IdleQuery ==
    /\ queries_ndim = 2
    /\ status = 0
    /\ retries = 0
    /\ nn_pc = "idle"
    /\ nn_statuses = <<>>
    /\ nn_outcome = "none"

\* A call of add_text / add_embeddings is about to start, on a project whose
\* index state is in `indexed` and with a worker count in `workers`.
CallStarts(indexed, workers) ==
    /\ method \in {"add_text", "add_embeddings"}
    /\ N \in 0..MaxN
    /\ S \in 1..MaxS
    /\ Len(RangeFrom(0, N, S)) <= MaxShards
    /\ num_workers \in workers
    /\ project_modality \in {"text", "embedding"}
    /\ locked \in BOOLEAN
    /\ valid \in BOOLEAN
    /\ has_index \in indexed
    /\ shard_bytes \in [1..PlanLen(N, S) -> {MaxShardBytes, MaxShardBytes + 1}]
    /\ IdleCall
    /\ IdleMaps
    /\ IdleValidator
    /\ IdleCtor
    /\ IdleQuery

\* a project without an index, any worker count
Init == CallStarts({FALSE}, 1..MaxW) /\ emb_rows = N

\* -------------------------------------------------------------- operations
\* shard_size = min(shard_size, 5000); the executor is created and one
\* send_request is submitted per start of range(0, len(data), shard_size).
StartUpload ==
    /\ pc = "start"
    /\ PreCheck = "none"
    /\ upload_endpoint' = UploadEndpoint(method, has_index)
    /\ LET s == EffectiveShardSize(S)
           starts == RangeFrom(0, N, s)
           n == Len(starts)
       IN /\ shard_size' = s
          /\ shards' = [k \in 1..n |-> Slice(starts[k], s, N)]
          /\ fut' = [k \in 1..n |->
                       [start |-> starts[k], st |-> "queued", resp |-> NoResp,
                        attempt |-> 1]]
          /\ futures' = 1..n
          /\ queue' = [k \in 1..n |-> k]
          /\ hist' = [k \in 1..n |-> <<>>]
          /\ adv' = [k \in 1..n |-> 0]
          /\ succBy' = [k \in 1..n |-> 0]
          /\ failBy' = [k \in 1..n |-> 0]
    /\ pc' = "loop"
    /\ UNCHANGED <<method, N, S, num_workers, project, done, tallies, outcome,
                   sentTo, maps, validator, ctor, query>>

\* One of the checks before the upload raises: wrong modality, ingestion
\* lock held, or the validator rejects the data.
RejectCall ==
    /\ pc = "start"
    /\ PreCheck # "none"
    /\ outcome' = PreCheck
    /\ pc' = "returned"
    /\ UNCHANGED <<params, fut, futures, queue, done, tallies, sentTo, ghosts>>

\* A pool thread takes the oldest work item and runs send_request: the
\* shard-upload request is sent and is in flight until it is answered.
\* send_request raises before requests.post when its shard is oversized: the
\* future is completed with the exception and nothing is sent.
WorkerStart ==
    /\ pc \in {"loop", "for", "drain"}
    /\ queue # <<>>
    /\ PoolHasIdleWorker
    /\ LET f == Head(queue)
           big == Oversized(shard_bytes[(fut[f].start \div shard_size) + 1])
       IN /\ fut' = [fut EXCEPT ![f].st = IF big THEN "done" ELSE "running"]
          /\ sentTo' = IF big THEN sentTo ELSE sentTo \cup {upload_endpoint}
    /\ queue' = Tail(queue)
    /\ UNCHANGED <<params, pc, futures, done, tallies, outcome, ghosts>>

\* requests.post returns and send_request ends: future f is completed.  What
\* the response says is drawn when the loop reads it (see Process).
WorkerFinish(f) ==
    /\ f \in Running
    /\ fut' = [fut EXCEPT ![f].st = "done"]
    /\ UNCHANGED <<params, pc, futures, queue, done, tallies, outcome, sentTo,
                   ghosts>>

\* while futures: done, not_done = wait(futures, FIRST_COMPLETED)
Wait ==
    /\ pc = "loop"
    /\ futures # {}
    /\ LET completed == {f \in futures : fut[f].st = "done"}
       IN /\ completed # {}
          /\ done' = completed
    /\ pc' = "for"
    /\ UNCHANGED <<params, fut, futures, queue, tallies, outcome, sentTo,
                   ghosts>>

\* The branch of the loop body a response takes.
Branch(r) ==
    IF r.status = HTTP_OK THEN "ok"
    ELSE IF JsonParses(r) THEN
        IF PhraseIn("limit", r) THEN "limit"
        ELSE IF PhraseIn("lock", r) THEN "lock"
        ELSE IF PhraseIn("conflict", r) THEN "conflict"
        ELSE "fallthrough"
    ELSE IF r.status = HTTP_TOO_LARGE THEN "too_large"
    ELSE IF r.status = HTTP_GATEWAY_TIMEOUT THEN "timeout"
    ELSE "other"

\* a progress bar that also advances when a 504 is resubmitted
PbarDelta_onretry(b) ==
    IF b \in {"ok", "too_large", "other", "timeout"} THEN 1 ELSE 0

\* pbar.update(1) calls of a branch
PbarDelta(b) == IF b \in {"ok", "too_large", "other"} THEN 1 ELSE 0

\* succeeded += shard_size
SucceededDelta(b) == IF b = "ok" THEN shard_size ELSE 0

\* failed += shard_size
FailedDelta(b) == IF b \in {"too_large", "other"} THEN shard_size ELSE 0

\* errors_504 += shard_size
TimeoutDelta(b) == IF b = "timeout" THEN shard_size ELSE 0

\* a threshold without the failure fraction: three resubmissions at most
Overloaded_nofraction(e, f, s) == e > shard_size * 3

\* failure_fraction > 0.25 and errors_504 > shard_size * 3, with
\* failure_fraction = errors_504 / (failed + succeeded + errors_504)
Overloaded(e, f, s) ==
    /\ 4 * e > f + s + e
    /\ e > shard_size * 3

\* the branches that leave the loop: return False and the two raise
Aborts(b, e, f, s) ==
    \/ b \in {"limit", "lock"}
    \/ b = "timeout" /\ Overloaded(e, f, s)

\* a loop that also resubmits the shards it has counted as failed
Resubmits_afterfailure(b, e, f, s) ==
    \/ b = "other"
    \/ b = "timeout" /\ ~Overloaded(e, f, s)

\* the branch that calls executor.submit(send_request, start_point)
Resubmits(b, e, f, s) == b = "timeout" /\ ~Overloaded(e, f, s)

\* `continue` and the branches that leave the loop skip `del futures[future]`
KeepsFuture(b, e, f, s) == b = "conflict" \/ Aborts(b, e, f, s)

\* index in `shards` of the shard that starts at i
ShardIx(i) == (i \div shard_size) + 1

\* future.result() raises the exception of send_request
Raised(f) ==
    /\ fut[f].st = "done"
    /\ Oversized(shard_bytes[ShardIx(fut[f].start)])

\* One iteration of `for future in done`, for future f whose result() is the
\* response r.  A future that stays in the dict is visited again with the
\* response it has.
Process(f, r) ==
    /\ pc = "for"
    /\ f \in done
    /\ ~Raised(f)
    /\ fut[f].resp # NoResp => r = fut[f].resp
    /\ LET b == Branch(r)
           k == ShardIx(fut[f].start)
           e == errors_504 + TimeoutDelta(b)
           abort == Aborts(b, e, failed, succeeded)
           resubmit == Resubmits(b, e, failed, succeeded)
           keep == KeepsFuture(b, e, failed, succeeded)
           read == [fut EXCEPT ![f].resp = IF keep THEN r ELSE NoResp,
                               ![f].st = IF keep THEN "done" ELSE "deleted"]
       IN /\ pbar_n' = pbar_n + PbarDelta(b)
          /\ succeeded' = succeeded + SucceededDelta(b)
          /\ failed' = failed + FailedDelta(b)
          /\ errors_504' = e
          /\ hist' = IF fut[f].resp = NoResp
                     THEN [hist EXCEPT ![k] = Append(@, r)] ELSE hist
          /\ adv' = [adv EXCEPT ![k] = @ + PbarDelta(b)]
          /\ succBy' = [succBy EXCEPT ![k] = @ + SucceededDelta(b)]
          /\ failBy' = [failBy EXCEPT ![k] = @ + FailedDelta(b)]
          /\ outcome' = IF b = "limit" THEN "false"
                        ELSE IF b = "lock" THEN "lock_error"
                        ELSE IF abort THEN "overload_error"
                        ELSE outcome
          /\ fut' = IF resubmit
                    THEN Submit(read, fut[f].start, fut[f].attempt + 1)
                    ELSE read
          /\ queue' = IF resubmit THEN Append(queue, Len(fut) + 1) ELSE queue
          /\ futures' = (IF keep THEN futures ELSE futures \ {f})
                        \cup (IF resubmit THEN {Len(fut) + 1} ELSE {})
          /\ done' = IF abort THEN {} ELSE done \ {f}
          /\ pc' = IF abort THEN "drain"
                   ELSE IF done \ {f} = {} THEN "loop" ELSE "for"
    /\ UNCHANGED <<params, sentTo>>

\* `response = future.result()` raises the size guard's exception: it leaves
\* the loop and the with block.
ProcessRaised(f) ==
    /\ pc = "for"
    /\ f \in done
    /\ Raised(f)
    /\ outcome' = "size_error"
    /\ done' = {}
    /\ pc' = "drain"
    /\ UNCHANGED <<params, fut, futures, queue, tallies, sentTo, ghosts>>

\* `while futures` finds the dict empty: the loop ends and the with block exits.
ExitLoop ==
    /\ pc = "loop"
    /\ futures = {}
    /\ pc' = "drain"
    /\ UNCHANGED <<params, fut, futures, queue, done, tallies, outcome, sentTo,
                   ghosts>>

\* What the code after the with block does when the loop ended normally:
\* add_text evaluates len(failed) on an int when failed is non-zero.
Epilogue ==
    IF failed # 0 /\ method = "add_text" THEN "type_error" ELSE "true"

\* The with block's exit, executor.shutdown(wait=True), returns and the call
\* hands control back: return True / return False / the raised error.
Return ==
    /\ pc = "drain"
    /\ ExecutorIdle
    /\ pc' = "returned"
    /\ outcome' = IF outcome = "none" THEN Epilogue ELSE outcome
    /\ UNCHANGED <<params, fut, futures, queue, done, tallies, sentTo, ghosts>>

Next ==
    \/ StartUpload
    \/ RejectCall
    \/ WorkerStart
    \/ \E f \in Ids : WorkerFinish(f)
    \/ Wait
    \/ \E f \in Ids, r \in Responses : Process(f, r)
    \/ \E f \in Ids : ProcessRaised(f)
    \/ ExitLoop
    \/ Return

Spec == Init /\ [][Next]_vars

\* The planner runs: the call's first step over datasets and requested shard
\* sizes on both sides of the 5000 cap.
BigN == {MaxShardSize - 1, MaxShardSize, MaxShardSize + 1,
         2 * MaxShardSize, 2 * MaxShardSize + 1}

BigS == {MaxShardSize - 1, MaxShardSize, MaxShardSize + 1, 2 * MaxShardSize}

InitPlan ==
    /\ method \in {"add_text", "add_embeddings"}
    /\ N \in (0..MaxPlanN) \cup BigN
    /\ S \in (1..MaxPlanS) \cup BigS
    /\ N \in BigN => S \in BigS
    /\ num_workers = 1
    /\ project_modality = ModalityOf(method)
    /\ locked = FALSE
    /\ valid = TRUE
    /\ has_index \in BOOLEAN
    /\ shard_bytes = [k \in 1..PlanLen(N, S) |-> MaxShardBytes]
    /\ emb_rows = N
    /\ IdleCall
    /\ IdleMaps
    /\ IdleValidator
    /\ IdleCtor
    /\ IdleQuery

SpecPlan == InitPlan /\ [][StartUpload]_vars

\* Every step that can be taken is eventually taken: the calling thread
\* goes on, a queued task gets a worker, a request in flight gets a response.
Fairness ==
    /\ WF_vars(StartUpload)
    /\ WF_vars(RejectCall)
    /\ WF_vars(WorkerStart)
    /\ WF_vars(\E f \in Ids : WorkerFinish(f))
    /\ WF_vars(Wait)
    /\ WF_vars(\E f \in Ids, r \in Responses : Process(f, r))
    /\ WF_vars(\E f \in Ids : ProcessRaised(f))
    /\ WF_vars(ExitLoop)
    /\ WF_vars(Return)

FairSpec == Spec /\ Fairness

\* Projects with and without an index, uploaded to by one worker.
InitEndpoint == CallStarts(BOOLEAN, {1}) /\ emb_rows = N

SpecEndpoint == InitEndpoint /\ [][Next]_vars

\* ------------------------------------------ update_maps and map_embeddings
\* range(0, len(data), MAX_MEMORY_CHUNK)
Chunks == RangeFrom(0, maps_len, MAX_MEMORY_CHUNK)

MapsLens == {c * MAX_MEMORY_CHUNK + d : c \in 0..(MaxChunks - 1), d \in {0, 1}}

\* return self.rebuild_maps() / self.create_index(...)
TriggerPath(c) ==
    IF c = "update_maps" THEN "/v1/project/update_indices"
                         ELSE "/v1/project/index/create"

\* the for loop over the chunks has run to its end
UploadFinished == chunk_i > Len(Chunks)

\* update_maps' checks of its arguments: the error they raise, "none" if none.
\* The message of the length check is built by .format() without arguments,
\* which raises IndexError before the ValueError is constructed.
MapsCheck ==
    IF project_modality = "embedding" /\ emb_rows = NoEmbeddings
        THEN "value_error"
    ELSE IF project_modality = "text" /\ emb_rows # NoEmbeddings
        THEN "value_error"
    ELSE IF emb_rows # NoEmbeddings /\ maps_len # emb_rows
        THEN "index_error"
    ELSE "none"

\* update_maps validates its arguments before the first chunk.
ValidateMaps ==
    /\ maps_pc = "validate"
    /\ maps_pc' = IF MapsCheck = "none" THEN "upload" ELSE MapsCheck
    /\ UNCHANGED <<method, N, S, num_workers, shard_size, shards, project,
                   upload_endpoint, caller, maps_len, chunk_i, chunk_results,
                   triggers, pc, fut, futures, queue, done, tallies, outcome,
                   sentTo, ghosts, validator, ctor, query>>

\* One pass of the loop: add_embeddings / add_text is called on the chunk and
\* returns True, returns False, or raises; the returned value is dropped.
UploadChunk(o) ==
    /\ maps_pc = "upload"
    /\ chunk_i <= Len(Chunks)
    /\ chunk_results' = Append(chunk_results, o)
    /\ IF o = "raised"
         THEN maps_pc' = "raised" /\ chunk_i' = chunk_i
         ELSE maps_pc' = maps_pc /\ chunk_i' = chunk_i + 1
    /\ UNCHANGED <<method, N, S, num_workers, shard_size, shards, project,
                   upload_endpoint, caller, maps_len, triggers, pc, fut,
                   futures, queue, done, tallies, outcome, sentTo, ghosts,
                   validator, ctor, query>>

\* After the loop: rebuild_maps() posts update_indices, create_index() posts
\* index/create.
RebuildMaps ==
    /\ maps_pc = "upload"
    /\ UploadFinished
    /\ triggers' = triggers \cup {TriggerPath(caller)}
    /\ maps_pc' = "done"
    /\ UNCHANGED <<method, N, S, num_workers, shard_size, shards, project,
                   upload_endpoint, caller, maps_len, chunk_i, chunk_results,
                   pc, fut, futures, queue, done, tallies, outcome, sentTo,
                   ghosts, validator, ctor, query>>

InitMaps ==
    /\ caller \in {"update_maps", "map_embeddings"}
    /\ method \in {"add_text", "add_embeddings"}
    /\ caller = "map_embeddings" => method = "add_embeddings"
    /\ maps_len \in MapsLens
    /\ emb_rows \in {NoEmbeddings, maps_len, maps_len + 1}
    /\ caller = "map_embeddings" => emb_rows = maps_len
    /\ chunk_i = 1
    /\ chunk_results = <<>>
    /\ maps_pc = IF caller = "update_maps" THEN "validate" ELSE "upload"
    /\ triggers = {}
    /\ N = 0
    /\ S = 1
    /\ num_workers = 1
    /\ project_modality = ModalityOf(method)
    /\ locked = FALSE
    /\ valid = TRUE
    /\ has_index = FALSE
    /\ shard_bytes = <<>>
    /\ IdleCall
    /\ IdleValidator
    /\ IdleCtor
    /\ IdleQuery

NextMaps ==
    \/ ValidateMaps
    \/ \E o \in {"true", "false", "raised"} : UploadChunk(o)
    \/ RebuildMaps

SpecMaps == InitMaps /\ [][NextMaps]_vars

\* ---------------------------------------------------------------- validator
\* A record (datum) is a dict: a function from its keys to values. A value
\* is its Python type and its text: the characters of a str, the digits of
\* an int, the repr of a list.
StrV(t) == [type |-> "str", s |-> t]

IntV(t) == [type |-> "int", s |-> t]

ListV == [type |-> "list", s |-> "[]"]

\* a string of 37 characters
LongId == "a234567890123456789012345678901234567"

IsoDate == "2020-01-01"

\* str(uuid.uuid4()) for the k-th record: 36 characters, a new one each time
Uuid(k) ==
    <<"00000000-0000-4000-8000-000000000001",
      "00000000-0000-4000-8000-000000000002",
      "00000000-0000-4000-8000-000000000003",
      "00000000-0000-4000-8000-000000000004">>[k]

\* str(datum[key])
Str(v) == v.s

\* date.fromisoformat(t) does not raise: of the texts above only IsoDate
IsIsoDate(t) == t = IsoDate

\* key.startswith('_')
StartsWithUnderscore(key) == key \in {"_r"}

\* isinstance(datum[key], str) and len(datum[key]) == 0
IsEmptyStr(v) == v.type = "str" /\ Len(v.s) = 0

\* isinstance(datum[key], (str, float, int))
IsFlat(v) == v.type \in {"str", "float", "int"}

\* the keys of a record in the order `for key in datum` visits them: the
\* order of insertion, an injected id last
KeySeq(datum, idf) ==
    SelectSeq(<<"a", "_r", idf>>, LAMBDA key : key \in DOMAIN datum)

\* a record without id gets one: project.id_field == ATLAS_DEFAULT_ID_FIELD
InjectsId(idf) == idf = ATLAS_DEFAULT_ID_FIELD

\* len(str(datum[project.id_field])) > 36
IdTooLong_never(v) == FALSE

IdTooLong(v) == Len(Str(v)) > 36

\* datum_keylist != metadata_keys
KeysDiffer_never(ks, mk) == FALSE

KeysDiffer(ks, mk) == ks # mk

\* a date key's value that date.fromisoformat rejects
BadTimestamp_never(key, v, dk) == FALSE

BadTimestamp(key, v, dk) == key \in dk /\ ~IsIsoDate(Str(v))

\* the reserved-prefix test skipped
Reserved_never(key) == FALSE

Reserved(key) == StartsWithUnderscore(key)

\* the empty-string branch taken for every modality
ChecksEmpty_always(modality) == TRUE

ChecksEmpty(modality) == modality = "text"

Failure(kind) == [kind |-> kind, first |-> {}, found |-> {}]

\* for key in datum: ... (lines 224-247), from the j-th key on
RECURSIVE VisitKeys(_, _, _, _, _, _)
VisitKeys(datum, ks, j, dk, modality, flag) ==
    IF j > Len(ks) THEN [datum |-> datum, kind |-> "ok"]
    ELSE
      LET key == ks[j]
          v == datum[key]
      IN IF Reserved(key)
           THEN [datum |-> datum, kind |-> "reserved_key"]
         ELSE IF BadTimestamp(key, v, dk)
           THEN [datum |-> datum, kind |-> "invalid_timestamp"]
         ELSE IF ChecksEmpty(modality) /\ IsEmptyStr(v) /\ ~flag
           THEN [datum |-> datum, kind |-> "empty_value"]
         ELSE
           LET d2 == IF ChecksEmpty(modality) /\ IsEmptyStr(v)
                       THEN [datum EXCEPT ![key] = StrV("null")]
                       ELSE datum
           IN IF ~IsFlat(d2[key])
                THEN [datum |-> d2, kind |-> "not_flat"]
                ELSE VisitKeys(d2, ks, j + 1, dk, modality, flag)

\* for datum in data: ... (lines 187-247), from the k-th record on; mk and dk
\* are metadata_keys and metadata_date_keys, set at the first record.
RECURSIVE ValidateFrom(_, _, _, _, _, _, _)
ValidateFrom(d, k, mk, dk, idf, modality, flag) ==
    IF k > Len(d) THEN [data |-> d, outcome |-> Failure("ok")]
    ELSE IF idf \in DOMAIN d[k] /\ IdTooLong(d[k][idf])
      THEN [data |-> d, outcome |-> Failure("id_too_long")]
    ELSE IF idf \notin DOMAIN d[k] /\ ~InjectsId(idf)
      \* the message of the ValueError reads datum[project.id_field]
      THEN [data |-> d, outcome |-> Failure("key_error")]
    ELSE
      LET datum == IF idf \in DOMAIN d[k] THEN d[k]
                   ELSE [key \in DOMAIN d[k] \cup {idf} |->
                           IF key = idf THEN StrV(Uuid(k)) ELSE d[k][key]]
          d1 == [d EXCEPT ![k] = datum]
          mk1 == IF k = 1 THEN DOMAIN datum ELSE mk
          dk1 == IF k = 1
                   THEN {key \in DOMAIN datum : IsIsoDate(Str(datum[key]))}
                   ELSE dk
      IN IF KeysDiffer(DOMAIN datum, mk1)
           THEN [data |-> d1,
                 outcome |-> [kind |-> "schema_mismatch", first |-> mk1,
                              found |-> DOMAIN datum]]
         ELSE
           LET r == VisitKeys(datum, KeySeq(datum, idf), 1, dk1, modality, flag)
               d2 == [d1 EXCEPT ![k] = r.datum]
           IN IF r.kind # "ok"
                THEN [data |-> d2, outcome |-> Failure(r.kind)]
                ELSE ValidateFrom(d2, k + 1, mk1, dk1, idf, modality, flag)

\* _validate_and_correct_user_supplied_metadata(data, project, flag)
ValidateMetadata(d, idf, modality, flag) ==
    ValidateFrom(d, 1, {}, {}, idf, modality, flag)

\* the values a key takes in the validator runs
ValuesOf(key, idf) ==
    IF key = idf THEN {StrV(""), StrV("x"), StrV(LongId)}
    ELSE IF key = "a" THEN {StrV(""), StrV(IsoDate), IntV("7"), ListV}
    ELSE {StrV("x")}

Records(idf) ==
    UNION {{datum \in [ks -> UNION {ValuesOf(key, idf) : key \in ks}] :
               \A key \in ks : datum[key] \in ValuesOf(key, idf)} :
             ks \in SUBSET {"a", "_r", idf}}

\* a validator that undoes its changes of `data` before it raises
AfterRaise_rollback(changed, original) == original

\* `data` after a raise: the records as the loop has changed them in place
AfterRaise(changed, original) == changed

\* the validator has run
Ran == v_outcome # NotRun

\* The validator runs on the batch.
Validate ==
    /\ v_outcome = NotRun
    /\ LET r == ValidateMetadata(data, id_field, project_modality, replace_empty)
       IN /\ data' = IF r.outcome.kind = "ok" THEN r.data
                                              ELSE AfterRaise(r.data, data)
          /\ v_outcome' = r.outcome
    /\ UNCHANGED <<method, N, S, num_workers, shard_size, shards, project,
                   upload_endpoint, maps, pc, fut, futures, queue, done,
                   tallies, outcome, sentTo, ghosts, id_field, replace_empty,
                   data_in, ctor, query>>

InitValidate ==
    /\ id_field \in {ATLAS_DEFAULT_ID_FIELD, "uid"}
    /\ project_modality \in {"text", "embedding"}
    /\ replace_empty \in BOOLEAN
    /\ data \in UNION {[1..n -> Records(id_field)] : n \in 0..MaxBatch}
    /\ data_in = data
    /\ v_outcome = NotRun
    /\ method = "add_text"
    /\ N = 0
    /\ S = 1
    /\ num_workers = 1
    /\ locked = FALSE
    /\ valid = TRUE
    /\ has_index = FALSE
    /\ shard_bytes = <<>>
    /\ emb_rows = 0
    /\ IdleCall
    /\ IdleMaps
    /\ IdleCtor
    /\ IdleQuery

SpecValidate == InitValidate /\ [][Validate]_vars

\* Longer batches over a few record shapes: the id present or absent, the
\* key "a" absent, an empty string or a list.
ShortRecords(idf) ==
    {datum \in Records(idf) :
        /\ "_r" \notin DOMAIN datum
        /\ idf \in DOMAIN datum => datum[idf] = StrV("x")
        /\ "a" \in DOMAIN datum => datum["a"] \in {StrV(""), ListV}}

InitValidateLong ==
    /\ id_field \in {ATLAS_DEFAULT_ID_FIELD, "uid"}
    /\ project_modality \in {"text", "embedding"}
    /\ replace_empty \in BOOLEAN
    /\ data \in UNION {[1..n -> ShortRecords(id_field)] : n \in 0..MaxLongBatch}
    /\ data_in = data
    /\ v_outcome = NotRun
    /\ method = "add_text"
    /\ N = 0
    /\ S = 1
    /\ num_workers = 1
    /\ locked = FALSE
    /\ valid = TRUE
    /\ has_index = FALSE
    /\ shard_bytes = <<>>
    /\ emb_rows = 0
    /\ IdleCall
    /\ IdleMaps
    /\ IdleCtor
    /\ IdleQuery

SpecValidateLong == InitValidateLong /\ [][Validate]_vars

\* ----------------------------------------------- the call and its records
\* a call that validates before it checks modality and lock
ReachesValidator_unchecked == TRUE

\* the call gets to the validator: the modality and the lock check passed
ReachesValidator ==
    /\ project_modality = ModalityOf(method)
    /\ ~locked

\* self._validate_and_correct_user_supplied_metadata(data=data, ...)
CallValidate ==
    /\ pc = "start"
    /\ ReachesValidator
    /\ Validate

\* a check raises: the validator's error is raised once the validator ran
RejectChecked ==
    /\ ReachesValidator => Ran
    /\ RejectCall

\* the validator returned: the upload is planned and submitted
StartValidated ==
    /\ Ran
    /\ StartUpload

\* A call of add_text / add_embeddings on the caller's records: `valid` is
\* what the validator will say of them.
InitCall ==
    /\ method \in {"add_text", "add_embeddings"}
    /\ project_modality \in {"text", "embedding"}
    /\ locked \in BOOLEAN
    /\ id_field \in {ATLAS_DEFAULT_ID_FIELD, "uid"}
    /\ replace_empty \in BOOLEAN
    /\ data \in UNION {[1..n -> ShortRecords(id_field)] : n \in 0..MaxLongBatch}
    /\ data_in = data
    /\ v_outcome = NotRun
    /\ valid = (ValidateMetadata(data, id_field, project_modality,
                                 replace_empty).outcome.kind = "ok")
    /\ N = Len(data)
    /\ S = 1
    /\ num_workers = 1
    /\ has_index = FALSE
    /\ shard_bytes = [k \in 1..N |-> MaxShardBytes]
    /\ emb_rows = N
    /\ IdleCall
    /\ IdleMaps
    /\ IdleCtor
    /\ IdleQuery

NextCall ==
    \/ CallValidate
    \/ RejectChecked
    \/ StartValidated

SpecCall == InitCall /\ [][NextCall]_vars

\* -------------------------------------------------- AtlasProject.__init__
\* the paths of the requests the constructor issues
SearchPath == "/v1/project/search/name"

RemovePath == "/v1/project/remove"

CreatePath == "/v1/project/create"

GetPath == "/v1/project/{project_id}"

\* a constructor that deletes whatever project it finds
DeletesExisting_always(a) == TRUE

\* if reset_project_if_exists: self._delete_project_by_id(...)
DeletesExisting(a) == a.reset

\* __init__ and _create_project reject the arguments of a new project: no
\* unique_id_field, no modality, or a modality Atlas does not support
BadNewProjectArgs(a) ==
    \/ ~a.uid_given
    \/ a.modality = "none"
    \/ a.modality \notin {"text", "embedding"}

CtorStep(p, reqs, out) ==
    /\ ctor_pc' = p
    /\ ctor_reqs' = reqs
    /\ ctor_outcome' = out
    /\ UNCHANGED <<method, N, S, num_workers, shard_size, shards, project,
                   upload_endpoint, maps, pc, fut, futures, queue, done,
                   tallies, outcome, sentTo, ghosts, validator, ctor_args, query>>

\* assert name is not None or project_id is not None; with a project_id the
\* project is fetched and the constructor returns.
CtorBegin ==
    /\ ctor_pc = "begin"
    /\ IF ~ctor_args.name_given /\ ~ctor_args.by_id
         THEN CtorStep("raised", ctor_reqs, "assertion_error")
       ELSE IF ctor_args.by_id
         THEN CtorStep("done", Append(ctor_reqs, GetPath), "ok")
       ELSE CtorStep("search", ctor_reqs, "none")

\* results = self._get_existing_project_by_name(...)
CtorSearch ==
    /\ ctor_pc = "search"
    /\ IF ~ctor_args.search_ok
         THEN CtorStep("raised", Append(ctor_reqs, SearchPath), "search_error")
       ELSE IF ctor_args.exists
         THEN CtorStep("exists", Append(ctor_reqs, SearchPath), "none")
       ELSE CtorStep("create", Append(ctor_reqs, SearchPath), "none")

\* if 'project_id' in results: reset, refuse, or load the existing project
CtorExisting ==
    /\ ctor_pc = "exists"
    /\ IF DeletesExisting(ctor_args)
         THEN CtorStep("create", Append(ctor_reqs, RemovePath), "none")
       ELSE IF ~ctor_args.add_datums
         THEN CtorStep("raised", ctor_reqs, "exists_error")
       ELSE CtorStep("load", ctor_reqs, "none")

\* if project_id is None: the argument checks, then _create_project
CtorCreate ==
    /\ ctor_pc = "create"
    /\ IF BadNewProjectArgs(ctor_args)
         THEN CtorStep("raised", ctor_reqs, "argument_error")
       ELSE IF ~ctor_args.create_ok
         THEN CtorStep("raised", Append(ctor_reqs, CreatePath), "create_error")
       ELSE CtorStep("load", Append(ctor_reqs, CreatePath), "none")

\* self.meta = self._get_project_by_id(project_id=project_id)
CtorLoad ==
    /\ ctor_pc = "load"
    /\ CtorStep("done", Append(ctor_reqs, GetPath), "ok")

InitCtor ==
    /\ ctor_args \in [by_id : BOOLEAN, name_given : BOOLEAN, exists : BOOLEAN,
                      reset : BOOLEAN, add_datums : BOOLEAN,
                      uid_given : BOOLEAN,
                      modality : {"none", "text", "embedding", "image"},
                      search_ok : BOOLEAN, create_ok : BOOLEAN]
    /\ ctor_pc = "begin"
    /\ ctor_reqs = <<>>
    /\ ctor_outcome = "none"
    /\ method = "add_text"
    /\ N = 0
    /\ S = 1
    /\ num_workers = 1
    /\ project_modality = "text"
    /\ locked = FALSE
    /\ valid = TRUE
    /\ has_index = FALSE
    /\ shard_bytes = <<>>
    /\ emb_rows = 0
    /\ IdleCall
    /\ IdleMaps
    /\ IdleValidator
    /\ IdleQuery

NextCtor ==
    \/ CtorBegin
    \/ CtorSearch
    \/ CtorExisting
    \/ CtorCreate
    \/ CtorLoad

SpecCtor == InitCtor /\ [][NextCtor]_vars

\* ------------------------------------------------ records and embeddings
\* embedding_shard = embeddings[i : i + shard_size, :]: its number of rows
EmbeddingRows(i) ==
    LET hi == Min(i + shard_size, emb_rows)
    IN IF hi > i THEN hi - i ELSE 0

\* add_embeddings is called with any number of embedding rows; the requests
\* are sent and answered.
InitPair ==
    /\ CallStarts({FALSE}, {1})
    /\ emb_rows \in 0..(MaxN + 1)

NextPair ==
    \/ StartUpload
    \/ RejectCall
    \/ WorkerStart
    \/ \E f \in Ids : WorkerFinish(f)

SpecPair == InitPair /\ [][NextPair]_vars

\* ------------------------------------------------- documented failure bodies
\* The failure responses as the service documents them: a non-200 status and
\* a JSON object whose `detail` message contains one of the three phrases.
DetailResponses ==
    {[status |-> HTTP_OTHER, body |-> [shape |-> "dict", phrase |-> p]] :
        p \in {"limit", "lock", "conflict"}}

\* A call that passes the checks before the upload, with shards under the
\* size limit and one worker, answered with the responses above as well.
InitClassify ==
    /\ CallStarts({FALSE}, {1})
    /\ emb_rows = N
    /\ PreCheck = "none"
    /\ \A k \in DOMAIN shard_bytes : ~Oversized(shard_bytes[k])

NextClassify ==
    \/ StartUpload
    \/ WorkerStart
    \/ \E f \in Ids : WorkerFinish(f)
    \/ Wait
    \/ \E f \in Ids, r \in Responses \cup DetailResponses : Process(f, r)
    \/ ExitLoop
    \/ Return

SpecClassify == InitClassify /\ [][NextClassify]_vars

\* ------------------------------------- AtlasProjection.get_nearest_neighbors
\* what a nearest-neighbour query leaves alone
notQuery == <<method, N, S, num_workers, shard_size, shards, project,
              upload_endpoint, maps, validator, ctor, pc, fut, futures, queue,
              done, tallies, outcome, sentTo, ghosts>>

\* the status codes the query endpoint answers with
QueryStatuses == {HTTP_OK, HTTP_OTHER, HTTP_GATEWAY_TIMEOUT}

\* the checks before the query: the error raised, "none" when both pass
QueryCheck ==
    IF locked THEN "locked_error"
    ELSE IF queries_ndim # 2 THEN "ndim_error"
    ELSE "none"

\* one of the checks raises ValueError
QueryReject ==
    /\ nn_pc = "start"
    /\ QueryCheck # "none"
    /\ nn_outcome' = QueryCheck
    /\ nn_pc' = "returned"
    /\ UNCHANGED <<notQuery, queries_ndim, status, retries, nn_statuses>>

\* status = 0; retries = 0
QueryStart ==
    /\ nn_pc = "start"
    /\ QueryCheck = "none"
    /\ status' = 0
    /\ retries' = 0
    /\ nn_pc' = "while"
    /\ UNCHANGED <<notQuery, queries_ndim, nn_statuses, nn_outcome>>

\* while status != 200 and retries < 10
QueryGoesOn == status # HTTP_OK /\ retries < MaxQueryAttempts

\* one turn of the loop: the query is posted and answered with status st
QueryPost(st) ==
    /\ nn_pc = "while"
    /\ QueryGoesOn
    /\ status' = st
    /\ retries' = retries + 1
    /\ nn_statuses' = Append(nn_statuses, st)
    /\ UNCHANGED <<notQuery, queries_ndim, nn_pc, nn_outcome>>

\* if retries == 10: raise AssertionError; return response.json()
QueryEnd ==
    /\ nn_pc = "while"
    /\ ~QueryGoesOn
    /\ nn_outcome' = IF retries = MaxQueryAttempts THEN "assertion_error"
                                                    ELSE "result"
    /\ nn_pc' = "returned"
    /\ UNCHANGED <<notQuery, queries_ndim, status, retries, nn_statuses>>

InitQuery ==
    /\ locked \in BOOLEAN
    /\ queries_ndim \in 1..3
    /\ status = 0
    /\ retries = 0
    /\ nn_pc = "start"
    /\ nn_statuses = <<>>
    /\ nn_outcome = "none"
    /\ method = "add_embeddings"
    /\ N = 0
    /\ S = 1
    /\ num_workers = 1
    /\ project_modality = "embedding"
    /\ valid = TRUE
    /\ has_index = TRUE
    /\ shard_bytes = <<>>
    /\ emb_rows = 0
    /\ IdleCall
    /\ IdleMaps
    /\ IdleValidator
    /\ IdleCtor

NextQuery ==
    \/ QueryReject
    \/ QueryStart
    \/ \E st \in QueryStatuses : QueryPost(st)
    \/ QueryEnd

SpecQuery == InitQuery /\ [][NextQuery]_vars

\* ------------------------------------------------------------- retry runs
\* The state of a call with one worker in which the first n shards of the
\* plan have been answered and removed from `futures`, the first j of them
\* with 413 and the others with 200, and the last shard still waits in the
\* executor's queue.
MidCall(n, j) ==
    LET s == EffectiveShardSize(S)
        answer(k) == IF k <= j THEN [status |-> HTTP_TOO_LARGE, body |-> NoBody]
                               ELSE [status |-> HTTP_OK, body |-> DetailBody]
    IN /\ N = (n + 1) * s
       /\ shard_size = s
       /\ shards = [k \in 1..(n + 1) |-> Slice((k - 1) * s, s, N)]
       /\ pc = "loop"
       /\ fut = [k \in 1..(n + 1) |->
                   [start |-> (k - 1) * s,
                    st |-> IF k <= n THEN "deleted" ELSE "queued",
                    resp |-> NoResp, attempt |-> 1]]
       /\ futures = {n + 1}
       /\ queue = <<n + 1>>
       /\ done = {}
       /\ failed = j * s
       /\ succeeded = (n - j) * s
       /\ errors_504 = 0
       /\ pbar_n = n
       /\ outcome = "none"
       /\ upload_endpoint = UploadEndpoint(method, has_index)
       /\ sentTo = IF n = 0 THEN {} ELSE {upload_endpoint}
       /\ hist = [k \in 1..(n + 1) |-> IF k <= n THEN <<answer(k)>> ELSE <<>>]
       /\ adv = [k \in 1..(n + 1) |-> IF k <= n THEN 1 ELSE 0]
       /\ succBy = [k \in 1..(n + 1) |-> IF j < k /\ k <= n THEN s ELSE 0]
       /\ failBy = [k \in 1..(n + 1) |-> IF k <= j THEN s ELSE 0]

InitRetry ==
    /\ method \in {"add_text", "add_embeddings"}
    /\ S \in 1..MaxS
    /\ num_workers = 1
    /\ project_modality = ModalityOf(method)
    /\ locked = FALSE
    /\ valid = TRUE
    /\ has_index = FALSE
    /\ \E n \in 0..MaxAnswered :
          /\ shard_bytes = [k \in 1..(n + 1) |-> MaxShardBytes]
          /\ \E j \in 0..n : MidCall(n, j)
    /\ emb_rows = N
    /\ IdleMaps
    /\ IdleValidator
    /\ IdleCtor
    /\ IdleQuery

NextRetry ==
    \/ WorkerStart
    \/ \E f \in Ids : WorkerFinish(f)
    \/ Wait
    \/ \E f \in Ids, r \in Responses : Process(f, r)
    \/ ExitLoop
    \/ Return

SpecRetry == InitRetry /\ [][NextRetry]_vars

\* ------------------------------------------------------------------ claims
Aborted == outcome \in {"false", "lock_error", "overload_error"}

Statuses(h) == [j \in 1..Len(h) |-> h[j].status]

\* the future that a resubmission of shard k after its latest answer would be
Resubmitted(k, fs, live) ==
    \E g \in live : /\ fs[g].start = shards[k].lo
                    /\ fs[g].attempt = Len(hist[k]) + 1

\* C1: the shard plan starts at 0, s, 2s, ... with s = min(S, 5000); its
\* ranges are ordered and pairwise disjoint, their union is [0, N), none is
\* longer than s and only the last one may be shorter.
C1_ShardPlan ==
    pc # "start" =>
        LET s == IF S < 5000 THEN S ELSE 5000
            n == Len(shards)
        IN /\ \A k \in 1..n : /\ shards[k].lo = (k - 1) * s
                              /\ shards[k].lo < shards[k].hi
                              /\ shards[k].hi - shards[k].lo <= s
           /\ \A k \in 1..(n - 1) : shards[k].hi - shards[k].lo = s
           /\ \A j, k \in 1..n : j < k => shards[j].hi <= shards[k].lo
           /\ UNION {shards[k].lo .. (shards[k].hi - 1) : k \in 1..n}
                = 0..(N - 1)

C1_Witness ==
    /\ pc # "start"
    /\ S > 5000
    /\ Len(shards) = 3
    /\ shards[3].hi - shards[3].lo < 5000

\* C2: in every state of a call at most num_workers shard-upload requests
\* are in flight, first attempts and resubmissions together.
C2_InFlightBounded == Cardinality(Running) <= num_workers

C2_Witness ==
    /\ Cardinality(Running) = num_workers
    /\ \E f \in Running : fut[f].attempt > 1
    /\ queue # <<>>

\* C3: a shard whose latest answer has status 504 has been resubmitted as a
\* new task for the same start, unless the overload error was raised.
C3_Claim ==
    \A k \in 1..Len(hist) :
        (hist[k] # <<>> /\ hist[k][Len(hist[k])].status = 504)
            => \/ outcome = "overload_error"
               \/ Resubmitted(k, fut, futures)

\* C4: every step in which the loop reads a 504 adds the event to
\* errors_504, raises the overload error exactly when
\* errors_504 / (succeeded + failed + errors_504) > 0.25 and
\* errors_504 > 3 * shard_size, and otherwise resubmits the shard.
C4_Claim ==
    [][\A k \in 1..Len(hist) :
          (/\ Len(hist'[k]) = Len(hist[k]) + 1
           /\ hist'[k][Len(hist'[k])].status = 504)
          => /\ errors_504' = errors_504 + shard_size
             /\ (outcome' = "overload_error")
                  <=> (/\ 4 * errors_504' > succeeded' + failed' + errors_504'
                       /\ errors_504' > 3 * shard_size)
             /\ outcome' # "overload_error"
                  => \E g \in futures' \ futures :
                        fut'[g].start = shards[k].lo]_vars

\* C5: a shard answered only with 504s so far has advanced neither the
\* progress bar nor succeeded/failed; a shard answered 504, ..., 504 and then
\* 200 has advanced the progress bar exactly once and counts as exactly one
\* success.
C5_RetryCountsOnce ==
    \A k \in 1..Len(hist) :
        LET h == Statuses(hist[k])
            n == Len(h)
        IN /\ (\A j \in 1..n : h[j] = 504)
                => adv[k] = 0 /\ succBy[k] = 0 /\ failBy[k] = 0
           /\ (n > 0 /\ h[n] = 200 /\ \A j \in 1..(n - 1) : h[j] = 504)
                => adv[k] = 1 /\ succBy[k] = shard_size /\ failBy[k] = 0

C5_Witness ==
    /\ pc = "returned"
    /\ outcome = "true"
    /\ \E k \in 1..Len(hist) : Statuses(hist[k]) = <<504, 504, 200>>

\* C6: when the call returns true the progress bar has advanced exactly once
\* for every shard of the plan.
C6_Claim ==
    (pc = "returned" /\ outcome = "true")
        => /\ pbar_n = Len(shards)
           /\ \A k \in 1..Len(shards) : adv[k] = 1

\* C7: once every shard has been answered with the ID conflict response,
\* succeeded is N and failed is 0.
C7_Claim ==
    (/\ hist # <<>>
     /\ \A k \in 1..Len(hist) :
           /\ hist[k] # <<>>
           /\ \A j \in 1..Len(hist[k]) : hist[k][j].body.phrase = "conflict")
        => succeeded = N /\ failed = 0

\* C8: when every shard was answered 200 the call, having passed the checks
\* before the upload, returns true with failed = 0 and succeeded = N.
C8_Claim ==
    (/\ pc = "returned"
     /\ PreCheck = "none"
     /\ \A k \in 1..Len(hist) : Statuses(hist[k]) = <<200>>)
        => outcome = "true" /\ failed = 0 /\ succeeded = N

\* C9: after a fatal abort no request that was not yet in flight is sent.
C9_Claim == [][Aborted => Running' \subseteq Running]_vars

\* C10: after a fatal abort the requests in flight are not cancelled, the
\* call hands control back only when none is in flight any more, and neither
\* the tallies nor the progress bar change.
C10_DrainsInFlight ==
    [][Aborted =>
         /\ UNCHANGED <<failed, succeeded, errors_504, pbar_n, adv>>
         /\ \A f \in Running : fut'[f].st \in {"running", "done"}
         /\ (pc' = "returned") => (\A f \in Ids : fut[f].st # "running")]_vars

C10_Witness ==
    /\ Aborted
    /\ pc = "drain"
    /\ Running # {}

\* the responses the loop has read so far, of all shards
Read == UNION {{hist[k][j] : j \in 1..Len(hist[k])} : k \in 1..Len(hist)}

\* the outcomes that are an error raised to the caller
RaisedErrors == {"modality_error", "locked_error", "validation_error",
                 "size_error", "lock_error", "overload_error", "type_error"}

\* C11: a call that has read a non-200 response carrying the datum-limit
\* message returns false, one that has read the transaction-lock message
\* raises, and neither returns true.
C11_Claim ==
    pc = "returned" =>
        /\ (\E r \in Read : r.status # 200 /\ r.body.phrase = "limit")
              => outcome = "false"
        /\ (\E r \in Read : r.status # 200 /\ r.body.phrase = "lock")
              => outcome = "lock_error"

\* C12: an upload that passed the checks returns true exactly when no fatal
\* abort occurred; permanent shard failures do not make it raise.
C12_Claim ==
    (pc = "returned" /\ PreCheck = "none") =>
        (outcome = "true"
            <=> outcome \notin {"false", "lock_error", "overload_error",
                                "size_error"})

\* C13: a shard whose latest answer has status 413 has been added to failed
\* once, advanced the progress bar once, and has no task left.
C13_Claim ==
    \A k \in 1..Len(hist) :
        (hist[k] # <<>> /\ hist[k][Len(hist[k])].status = 413)
            => /\ failBy[k] = shard_size
               /\ adv[k] = 1
               /\ \A g \in futures : fut[g].start # shards[k].lo

\* C14: a shard whose latest answer is a non-200 other than 413 and 504 that
\* carries none of the three failure messages has been added to failed once
\* and advanced the progress bar once.
C14_Claim ==
    \A k \in 1..Len(hist) :
        (/\ hist[k] # <<>>
         /\ hist[k][Len(hist[k])].status \notin {200, 413, 504}
         /\ hist[k][Len(hist[k])].body.phrase = "none")
            => /\ failBy[k] = shard_size
               /\ adv[k] = 1

\* C15: a shard of more than 8,000,000 bytes is never in flight, and a call
\* with such a shard ends with a raised error.
C15_Claim ==
    /\ \A f \in Ids :
          shard_bytes[ShardIx(fut[f].start)] > 8000000 => fut[f].st # "running"
    /\ (/\ pc = "returned"
        /\ PreCheck = "none"
        /\ \E k \in 1..Len(shards) : shard_bytes[k] > 8000000)
          => outcome \in RaisedErrors

\* C16: when the call has raised a local validation error (the validator's or
\* the size guard's) no shard-upload request has been sent.
C16_Claim ==
    outcome \in {"validation_error", "size_error"} => sentTo = {}

\* C18: while the server reports the ingestion lock held, the call sends no
\* shard-upload request and ends with a raised error.
C18_LockRejects ==
    locked =>
        /\ sentTo = {}
        /\ fut = <<>>
        /\ pc \in {"start", "returned"}
        /\ pc = "returned" => outcome \in {"locked_error", "modality_error"}

C18_Witness ==
    /\ locked
    /\ pc = "returned"
    /\ outcome = "locked_error"

\* C19: every request of a call, resubmissions included, is posted to the
\* progressive endpoint of the method if the project had an index when the
\* call started and to the initial endpoint otherwise.
C19_OneEndpoint ==
    LET kind == IF method = "add_text" THEN "json" ELSE "embedding"
        mode == IF has_index THEN "progressive" ELSE "initial"
        path == "/v1/project/data/add/" \o kind \o "/" \o mode
    IN /\ sentTo \subseteq {path}
       /\ fut # <<>> => upload_endpoint = path

C19_Witness ==
    /\ has_index
    /\ sentTo # {}
    /\ \E f \in Running : fut[f].attempt > 1

\* C17: under fairness every call eventually returns or raises, whatever the
\* responses are.
C17_Claim == <>(pc = "returned")

\* C20: the index build request is posted only if every chunk's upload call
\* returned true.
C20_Claim ==
    triggers # {} =>
        \A j \in 1..Len(chunk_results) : chunk_results[j] = "true"

\* the requests that were posted: tasks a worker took whose shard passed the
\* size guard
Posted == {f \in Ids : /\ fut[f].st # "queued"
                       /\ ~Oversized(shard_bytes[ShardIx(fut[f].start)])}

\* C28: every request add_embeddings posts carries as many embedding rows as
\* records, and a call whose embeddings have another number of rows than
\* len(data) posts nothing.
C28_Claim ==
    method = "add_embeddings" =>
        /\ \A f \in Posted :
              EmbeddingRows(fut[f].start)
                = shards[ShardIx(fut[f].start)].hi - shards[ShardIx(fut[f].start)].lo
        /\ emb_rows # N => Posted = {}

\* ------------------------------------------------- claims on the validator

\* the keys a record of the input has once a missing default id is injected
KeysWithId(datum) ==
    DOMAIN datum \cup (IF id_field = "id_" THEN {id_field} ELSE {})

\* the date-like keys: those of the first record whose value is a date
DateKeys ==
    IF data_in = <<>> THEN {}
    ELSE {key \in DOMAIN data_in[1] : data_in[1][key].s = "2020-01-01"}

\* the checks of the validator, by the name of the error they raise
DefectKinds == {"id_too_long", "missing_id", "schema_mismatch", "reserved_key",
                "invalid_timestamp", "empty_value", "not_flat"}

\* the input batch has a record that the check `kind` rejects
Defect(kind) ==
    \E k \in 1..Len(data_in) :
       LET datum == data_in[k]
       IN \/ /\ kind = "id_too_long"
             /\ id_field \in DOMAIN datum
             /\ Len(datum[id_field].s) > 36
          \/ /\ kind = "missing_id"
             /\ id_field \notin DOMAIN datum
             /\ id_field # "id_"
          \/ /\ kind = "schema_mismatch"
             /\ KeysWithId(datum) # KeysWithId(data_in[1])
          \/ /\ kind = "reserved_key"
             /\ "_r" \in DOMAIN datum
          \/ /\ kind = "invalid_timestamp"
             /\ \E key \in DateKeys \cap DOMAIN datum :
                   datum[key].s # "2020-01-01"
          \/ /\ kind = "empty_value"
             /\ project_modality = "text"
             /\ ~replace_empty
             /\ \E key \in DOMAIN datum : datum[key] = StrV("")
          \/ /\ kind = "not_flat"
             /\ \E key \in DOMAIN datum : datum[key].type = "list"

\* the check `kind` is the only one that rejects a record of the input batch
OnlyDefect(kind) ==
    /\ Defect(kind)
    /\ \A other \in DefectKinds \ {kind} : ~Defect(other)

\* C21: a record without the id field gets a new id if the project's id
\* field is the default one; if it is not, the validator fails with the
\* missing-required-field error and the record gets no id.
C21_Claim ==
    Ran =>
        /\ \A k \in 1..Len(data_in) :
              id_field \notin DOMAIN data_in[k] =>
                 IF id_field = "id_"
                   THEN v_outcome.kind = "ok" =>
                          /\ id_field \in DOMAIN data[k]
                          /\ Len(data[k][id_field].s) = 36
                   ELSE /\ v_outcome.kind # "ok"
                        /\ id_field \notin DOMAIN data[k]
        /\ OnlyDefect("missing_id") => v_outcome.kind = "missing_id"

\* C22: after a successful validation every record has the id field with a
\* string form of at most 36 characters; a present id of more than 36
\* characters makes the validation fail.
C22_IdPresentAndShort ==
    Ran =>
        /\ v_outcome.kind = "ok" =>
              \A k \in 1..Len(data) :
                 /\ id_field \in DOMAIN data[k]
                 /\ Len(data[k][id_field].s) <= 36
        /\ Defect("id_too_long") => v_outcome.kind # "ok"
        /\ OnlyDefect("id_too_long") => v_outcome.kind = "id_too_long"

C22_Witness ==
    /\ v_outcome.kind = "ok"
    /\ \E k \in 1..Len(data_in) : id_field \notin DOMAIN data_in[k]
    /\ \E k \in 1..Len(data_in) : id_field \in DOMAIN data_in[k]

\* C23: after a successful validation all records have the key set of the
\* first record; a batch with a record whose key set (id injected) differs
\* from the first record's is rejected, and the key-set error names the
\* first record's key set and the differing one.
C23_SameKeys ==
    Ran =>
        /\ v_outcome.kind = "ok" =>
              \A k \in 1..Len(data) : DOMAIN data[k] = DOMAIN data[1]
        /\ Defect("schema_mismatch") => v_outcome.kind # "ok"
        /\ OnlyDefect("schema_mismatch") => v_outcome.kind = "schema_mismatch"
        /\ v_outcome.kind = "schema_mismatch" =>
              /\ v_outcome.first = KeysWithId(data_in[1])
              /\ v_outcome.found # v_outcome.first
              /\ \E k \in 2..Len(data_in) :
                    v_outcome.found = KeysWithId(data_in[k])

C23_Witness ==
    /\ v_outcome.kind = "schema_mismatch"
    /\ Len(data_in) = 2
    /\ id_field \notin DOMAIN data_in[1]

\* C24: the date-like keys are those of the first record; a value under a
\* date-like key that is not a date makes the validation fail with the
\* timestamp error, and the timestamp error is raised for no other value.
C24_DateKeys ==
    Ran =>
        /\ Defect("invalid_timestamp") => v_outcome.kind # "ok"
        /\ OnlyDefect("invalid_timestamp")
              => v_outcome.kind = "invalid_timestamp"
        /\ v_outcome.kind = "invalid_timestamp"
              => Defect("invalid_timestamp")

C24_Witness ==
    /\ v_outcome.kind = "invalid_timestamp"
    /\ Len(data_in) = 2
    /\ data_in[2]["a"] = IntV("7")

\* C25: after a successful validation no key of any record starts with '_';
\* a record with such a key makes the validation fail.
C25_NoReservedKey ==
    Ran =>
        /\ v_outcome.kind = "ok" =>
              \A k \in 1..Len(data) : "_r" \notin DOMAIN data[k]
        /\ Defect("reserved_key") => v_outcome.kind # "ok"
        /\ OnlyDefect("reserved_key") => v_outcome.kind = "reserved_key"

C25_Witness ==
    /\ v_outcome.kind = "reserved_key"
    /\ Len(data_in) = 2

\* C26: in a text project every empty string is replaced by "null" when the
\* flag is set and makes the validation fail when it is cleared; in another
\* project empty strings are neither replaced nor rejected.
C26_EmptyStrings ==
    Ran =>
        /\ (project_modality = "text" /\ replace_empty /\ v_outcome.kind = "ok")
              => \A k \in 1..Len(data_in) : \A key \in DOMAIN data_in[k] :
                    data_in[k][key] = StrV("") => data[k][key] = StrV("null")
        /\ Defect("empty_value") => v_outcome.kind # "ok"
        /\ OnlyDefect("empty_value") => v_outcome.kind = "empty_value"
        /\ project_modality # "text" =>
              /\ v_outcome.kind # "empty_value"
              /\ \A k \in 1..Len(data_in) : \A key \in DOMAIN data_in[k] :
                    data[k][key] = data_in[k][key]

C26_Witness ==
    /\ project_modality = "text"
    /\ replace_empty
    /\ v_outcome.kind = "ok"
    /\ \E k \in 1..Len(data_in) : \E key \in DOMAIN data_in[k] :
          data_in[k][key] = StrV("") /\ data[k][key] = StrV("null")

\* C27: the validator keeps the number and order of the records and every
\* key; it adds no key but a missing id, and changes no value but an empty
\* string, which becomes "null", and never an id that was present.
C27_Claim ==
    Ran =>
        /\ Len(data) = Len(data_in)
        /\ \A k \in 1..Len(data_in) :
              /\ DOMAIN data_in[k] \subseteq DOMAIN data[k]
              /\ DOMAIN data[k] \subseteq DOMAIN data_in[k] \cup {id_field}
              /\ \A key \in DOMAIN data_in[k] :
                    \/ data[k][key] = data_in[k][key]
                    \/ /\ data_in[k][key] = StrV("")
                       /\ data[k][key] = StrV("null")
                       /\ key # id_field

\* ----------------------------------------------- claims on the constructor
CtorEnded == ctor_pc \in {"done", "raised"}

Issued(path) == \E j \in 1..Len(ctor_reqs) : ctor_reqs[j] = path

\* C29: a constructor that has deleted the existing project and ended,
\* normally or with an error of its own argument checks, has issued the
\* request that creates the project anew.
C29_Claim ==
    (/\ CtorEnded
     /\ Issued("/v1/project/remove")
     /\ ctor_outcome \in {"ok", "argument_error"})
        => Issued("/v1/project/create")

\* C30: when the project exists and reset_project_if_exists is false the
\* constructor issues neither the remove nor the create request; it loads
\* the project if add_datums_if_exists is true and raises ValueError if not.
\* The remove request is issued only if reset_project_if_exists is true.
C30_KeepsExisting ==
    /\ Issued("/v1/project/remove") => ctor_args.reset
    /\ (/\ ctor_pc # "idle"
        /\ ~ctor_args.by_id
        /\ ctor_args.exists
        /\ ~ctor_args.reset)
          => /\ ~Issued("/v1/project/remove")
             /\ ~Issued("/v1/project/create")
             /\ (CtorEnded /\ ctor_args.name_given /\ ctor_args.search_ok)
                   => IF ctor_args.add_datums
                        THEN /\ ctor_outcome = "ok"
                             /\ ctor_reqs[Len(ctor_reqs)] = "/v1/project/{project_id}"
                        ELSE ctor_outcome = "exists_error"

C30_Witness ==
    /\ CtorEnded
    /\ ~ctor_args.by_id
    /\ ctor_args.exists
    /\ ~ctor_args.reset
    /\ ctor_args.add_datums
    /\ ctor_outcome = "ok"

\* ------------------------------------------ claims on the retry bookkeeping
\* C31: every non-200 response the loop has read whose JSON body is an object
\* with a `detail` message containing the datum-limit, transaction-lock or
\* ID-conflict phrase took the quota-abort, lock-abort or ID-conflict branch
\* respectively.
C31_Claim ==
    \A r \in Read :
        (/\ r.status # 200
         /\ r.body.shape = "dict"
         /\ r.body.phrase # "none")
            => Branch(r) = r.body.phrase

\* the answers of a shard so far are all 504s without a JSON body
OnlyTimeouts(h) ==
    /\ h # <<>>
    /\ \A j \in 1..Len(h) : h[j].status = 504 /\ h[j].body.shape = "none"

\* C32: resubmissions have no cap per shard: the overload error is raised
\* only when errors_504 / (succeeded + failed + errors_504) > 0.25 and
\* errors_504 > 3 * shard_size, and short of that a shard answered with 504s
\* only has a resubmission pending, however many 504s it has had.
C32_NoRetryCap ==
    /\ outcome = "overload_error" =>
          /\ 4 * errors_504 > failed + succeeded + errors_504
          /\ errors_504 > 3 * shard_size
    /\ \A k \in 1..Len(hist) :
          OnlyTimeouts(hist[k]) =>
              \/ outcome = "overload_error"
              \/ Resubmitted(k, fut, futures)

\* one shard answered 504 and resubmitted five times, no overload error
C32_Witness ==
    /\ outcome = "none"
    /\ \E k \in 1..Len(hist) :
          /\ OnlyTimeouts(hist[k])
          /\ Len(hist[k]) = 5
          /\ Resubmitted(k, fut, futures)
          /\ \A i \in 1..Len(hist) : i # k => Statuses(hist[i]) \in {<<200>>, <<413>>}

\* the number of responses the loop has read so far
RECURSIVE TotalLen(_)
TotalLen(h) == IF h = <<>> THEN 0 ELSE Len(Head(h)) + TotalLen(Tail(h))

\* C33: while every response read so far is a 504, the overload error has
\* been raised exactly if four of them were read, no fifth is read, and
\* until then every shard answered 504 has been resubmitted.
C33_Claim ==
    (\A k \in 1..Len(hist) : \A j \in 1..Len(hist[k]) : hist[k][j].status = 504)
        => /\ TotalLen(hist) <= 4
           /\ (outcome = "overload_error") <=> (TotalLen(hist) = 4)
           /\ outcome # "overload_error"
                => \A k \in 1..Len(hist) :
                      hist[k] # <<>> => Resubmitted(k, fut, futures)

RECURSIVE SumSeq(_)
SumSeq(q) == IF q = <<>> THEN 0 ELSE Head(q) + SumSeq(Tail(q))

\* C34: every shard of the plan has been added to succeeded + failed at most
\* once, however often it was resubmitted: the two tallies are made of the
\* shards' single contributions and their sum is at most
\* number_of_shards * shard_size.
C34_CountedOnce ==
    /\ \A k \in 1..Len(hist) : succBy[k] + failBy[k] \in {0, shard_size}
    /\ succeeded = SumSeq(succBy)
    /\ failed = SumSeq(failBy)
    /\ succeeded + failed <= Len(shards) * shard_size

\* a shard resubmitted twice and then counted, beside a shard counted at once
C34_Witness ==
    /\ pc = "returned"
    /\ \E k, i \in 1..Len(hist) :
          /\ Statuses(hist[k]) = <<504, 504, 413>>
          /\ failBy[k] = shard_size
          /\ Statuses(hist[i]) = <<200>>
          /\ succBy[i] = shard_size
    /\ succeeded + failed = Len(shards) * shard_size

\* ------------------------------------ claims on the nearest-neighbour query
\* C35: the query is posted at most 10 times and not again after a response
\* with status 200; a call that passed its checks returns the result if one
\* of its responses had status 200 and raises the 'Could not get response
\* from server' error only if none had.
C35_Claim ==
    /\ Len(nn_statuses) <= 10
    /\ \A j \in 1..(Len(nn_statuses) - 1) : nn_statuses[j] # 200
    /\ (nn_pc = "returned" /\ QueryCheck = "none")
          => /\ (\E j \in 1..Len(nn_statuses) : nn_statuses[j] = 200)
                   => nn_outcome = "result"
             /\ nn_outcome = "assertion_error"
                   => \A j \in 1..Len(nn_statuses) : nn_statuses[j] # 200

\* ----------------------------------------- claims on the caller's records
\* a check of the validator rejects record k of the input batch
RecordDefect(k) ==
    LET datum == data_in[k]
    IN \/ id_field \in DOMAIN datum /\ Len(datum[id_field].s) > 36
       \/ id_field \notin DOMAIN datum /\ id_field # "id_"
       \/ KeysWithId(datum) # KeysWithId(data_in[1])
       \/ "_r" \in DOMAIN datum
       \/ \E key \in DateKeys \cap DOMAIN datum : datum[key].s # "2020-01-01"
       \/ /\ project_modality = "text"
          /\ ~replace_empty
          /\ \E key \in DOMAIN datum : datum[key] = StrV("")
       \/ \E key \in DOMAIN datum : datum[key].type = "list"

\* the first record a check rejects is record k
FailsAt(k) ==
    /\ k \in 1..Len(data_in)
    /\ RecordDefect(k)
    /\ \A j \in 1..(k - 1) : ~RecordDefect(j)

\* C36: when the validation has failed at record k, the records after k are
\* as they were passed, and the records before k have the id they were
\* given and "null" for their empty strings (in a text project).
C36_NoRollback ==
    (Ran /\ v_outcome.kind # "ok") =>
        \E k \in 1..Len(data_in) :
            /\ FailsAt(k)
            /\ Len(data) = Len(data_in)
            /\ \A j \in (k + 1)..Len(data_in) : data[j] = data_in[j]
            /\ \A j \in 1..(k - 1) :
                  /\ DOMAIN data[j] = KeysWithId(data_in[j])
                  /\ id_field \notin DOMAIN data_in[j]
                        => Len(data[j][id_field].s) = 36
                  /\ \A key \in DOMAIN data_in[j] :
                        data[j][key] =
                            IF project_modality = "text"
                               /\ data_in[j][key] = StrV("")
                            THEN StrV("null") ELSE data_in[j][key]

\* the second of three records is rejected; the first has got an id and a
\* "null", the third lacks an id and has an empty string still
C36_Witness ==
    /\ Ran
    /\ v_outcome.kind # "ok"
    /\ Len(data_in) = 3
    /\ FailsAt(2)
    /\ DOMAIN data_in[1] = {"a"}
    /\ data[1]["a"] = StrV("null")
    /\ id_field \in DOMAIN data[1]
    /\ data_in[3]["a"] = StrV("")
    /\ data[3] = data_in[3]
    /\ id_field \notin DOMAIN data[3]

\* C37: a call rejected for the wrong modality or the held ingestion lock
\* has not run the validator and leaves the caller's records as they were
\* passed: no id injected, no empty string replaced.
C37_RejectLeavesRecords ==
    outcome \in {"modality_error", "locked_error"} =>
        /\ ~Ran
        /\ data = data_in

\* a call rejected for the lock whose first record the validator would have
\* given an id and a "null"
C37_Witness ==
    /\ pc = "returned"
    /\ outcome = "locked_error"
    /\ id_field = "id_"
    /\ project_modality = "text"
    /\ replace_empty
    /\ Len(data) = 2
    /\ DOMAIN data[1] = {"a"}
    /\ data[1]["a"] = StrV("")

====
